---- MODULE Spec2Model ----
(***************************************************************************)
(* A model of blast_hit.py: the BlastHit record (construction from one     *)
(* tab-separated line, identifier parsing, compare_hit, __str__) and the   *)
(* list reconciliation compare_blasts.                                     *)
(*                                                                         *)
(* A Python str is a sequence of one-character strings, so that split,     *)
(* strip, slicing and the character filter of compare_hit are computed     *)
(* rather than assumed.  Python objects (BlastHit instances, lists) live   *)
(* in heaps indexed by identity: `hits' and `blasts'.                      *)
(***************************************************************************)
EXTENDS Integers, Sequences, FiniteSets, TLC

VARIABLES
    hits,    \* heap of BlastHit objects: hit id -> its attributes (status is mutable)
    blasts,  \* heap of the caller's list objects: list name -> sequence of hit ids
    arg,     \* the arguments of the operation under study
    ret,     \* what the last call returned
    pc       \* "call" until the operation has been called once, then "return"

vars == <<hits, blasts, arg, ret, pc>>

\* Python's None as the second component of compare_hit's result: a value that
\* is no list of difference tags.
None == <<"None">>

TAB == "\t"
NL == "\n"
PIPE == "|"

------------------------------------------------------------------------------
(* Python str primitives *)

\* s.split(sep) for a one-character separator: never empty, keeps empty fields.
\* The k-th field lies between the (k-1)-th and the k-th separator.
Split(s, sep) ==
    LET at == {i \in 1..Len(s) : s[i] = sep}
        nth(k) == CHOOSE i \in at : Cardinality({j \in at : j < i}) = k - 1
        first(k) == IF k = 1 THEN 1 ELSE nth(k - 1) + 1
        last(k) == IF k = Cardinality(at) + 1 THEN Len(s) ELSE nth(k) - 1
    IN [k \in 1..(Cardinality(at) + 1) |-> SubSeq(s, first(k), last(k))]

\* s.strip(ch): every leading and trailing ch removed.
RECURSIVE LStrip(_, _)
LStrip(s, ch) == IF s # <<>> /\ Head(s) = ch THEN LStrip(Tail(s), ch) ELSE s

RECURSIVE RStrip(_, _)
RStrip(s, ch) ==
    IF s # <<>> /\ s[Len(s)] = ch THEN RStrip(SubSeq(s, 1, Len(s) - 1), ch) ELSE s

Strip(s, ch) == RStrip(LStrip(s, ch), ch)

\* sep.join(parts)
Join(parts, sep) ==
    LET RECURSIVE upto(_)
        upto(k) == IF k = 0 THEN <<>>
                   ELSE IF k = 1 THEN parts[1]
                   ELSE upto(k - 1) \o <<sep>> \o parts[k]
    IN upto(Len(parts))

\* s[:-1]: all but the last character (the empty string stays empty).
DropLast(s) == SubSeq(s, 1, Len(s) - 1)

\* [letter for letter in s if letter in 'ACGT']
Bases(s) == SelectSeq(s, LAMBDA letter : letter \in {"A", "C", "G", "T"})

------------------------------------------------------------------------------
(* BlastHit.__init__: identifier parsing *)

\* Tokens shorter than this are database tags, the others accession numbers.
IdThreshold == 5

GeneId(db, num) == [db |-> db, num |-> num]

\* The inner while loop started at token n: one GeneId for every token of the
\* unbroken run of long tokens that follows token n.
RECURSIVE IdRun(_, _, _, _)
IdRunBroken(ids, n, num, acc) ==
    IF num <= Len(ids)
    THEN IF Len(ids[num]) >= IdThreshold
         THEN IdRun(ids, n, num + 1, Append(acc, GeneId(ids[n], ids[num])))
         ELSE IdRun(ids, n, num + 1, acc)
    ELSE acc

IdRun(ids, n, num, acc) ==
    IF num <= Len(ids)
    THEN IF Len(ids[num]) >= IdThreshold
         THEN IdRun(ids, n, num + 1, Append(acc, GeneId(ids[n], ids[num])))
         ELSE acc
    ELSE acc

\* The outer for loop over the tokens.
RECURSIVE IdLoop(_, _, _)
IdLoop(ids, n, acc) ==
    IF n > Len(ids) THEN acc
    ELSE IF Len(ids[n]) < IdThreshold
         THEN IdLoop(ids, n + 1, IdRun(ids, n, n + 1, acc))
         ELSE IdLoop(ids, n + 1, acc)

ParseIds(idfield) == IdLoop(Split(Strip(idfield, PIPE), PIPE), 1, <<>>)

------------------------------------------------------------------------------
(* BlastHit.__init__ *)

\* hit[i] of the code, with Python's 0-based index.
Field(hit, i) == hit[i + 1]

BlastHit(raw) ==
    LET hit == Split(raw, TAB) IN
    [ raw           |-> raw,
      ids           |-> ParseIds(Field(hit, 1)),
      name          |-> Field(hit, 0),
      length        |-> Field(hit, 3),
      score         |-> Field(hit, 13),
      e_value       |-> Field(hit, 10),
      identities    |-> Field(hit, 14),
      positives     |-> Field(hit, 15),
      gaps          |-> Field(hit, 16),
      qframe        |-> Field(hit, 18),
      sframe        |-> Field(hit, 19),
      query         |-> Field(hit, 20),
      query_start   |-> Field(hit, 6),
      mismatch      |-> Field(hit, 4),
      subject       |-> Field(hit, 21),
      subject_start |-> Field(hit, 8),
      status        |-> "" ]

------------------------------------------------------------------------------
(* BlastHit.compare_hit *)

\* A variant that filters only its own alignment strings.
HardMismatchOneSided(self, other, check_ids) ==
    \/ check_ids /\ ~(self.ids = other.ids)
    \/ self.query_start # other.query_start
    \/ self.subject_start # other.subject_start
    \/ self.qframe # other.qframe
    \/ self.sframe # other.sframe
    \/ Bases(self.query) # other.query
    \/ Bases(self.subject) # other.subject

\* The if/elif chain: TRUE when one of its branches returns (False, None).
HardMismatch(self, other, check_ids) ==
    \/ check_ids /\ ~(self.ids = other.ids)
    \/ self.query_start # other.query_start
    \/ self.subject_start # other.subject_start
    \/ self.qframe # other.qframe
    \/ self.sframe # other.sframe
    \/ Bases(self.query) # Bases(other.query)
    \/ Bases(self.subject) # Bases(other.subject)

\* A variant that forgets the gap count.
SoftDifferencesNoGaps(self, other) ==
    LET d1 == IF self.e_value # other.e_value THEN <<"eValue">> ELSE <<>>
        d2 == IF \/ self.identities # other.identities
                 \/ self.query # other.query
                 \/ self.subject # other.subject
                 \/ self.score # other.score
                 \/ self.positives # other.positives
                 \/ self.mismatch # other.mismatch
              THEN <<"alignment">> ELSE <<>>
    IN d1 \o d2

\* The else branch: the list of soft differences.
SoftDifferences(self, other) ==
    LET d1 == IF self.e_value # other.e_value THEN <<"eValue">> ELSE <<>>
        d2 == IF \/ self.identities # other.identities
                 \/ self.query # other.query
                 \/ self.subject # other.subject
                 \/ self.score # other.score
                 \/ self.positives # other.positives
                 \/ self.gaps # other.gaps
                 \/ self.mismatch # other.mismatch
              THEN <<"alignment">> ELSE <<>>
    IN d1 \o d2

\* Returns the pair (same, differences).
compare_hit(self, other, check_ids) ==
    IF HardMismatch(self, other, check_ids)
    THEN <<FALSE, None>>
    ELSE <<TRUE, SoftDifferences(self, other)>>

------------------------------------------------------------------------------
(* BlastHit.__str__ *)

StatusChars(status) ==
    CASE status = "equal"   -> <<"e", "q", "u", "a", "l">>
      [] status = "similar" -> <<"s", "i", "m", "i", "l", "a", "r">>
      [] OTHER              -> <<>>

\* '%s\t%s' % (self.raw[:-1], self.status) unless the status is ''.
ToStr(self) ==
    IF self.status = "" THEN self.raw
    ELSE DropLast(self.raw) \o <<TAB>> \o StatusChars(self.status)

------------------------------------------------------------------------------
(* Input lines: 22 tab-separated fields, as the extended tabular output *)

NumFields == 22

\* The fields of one well-formed line, by Python index 0..21.
BaseFields ==
    << <<"q", "1">>,                                    \* 0  name
       <<"g","b","|","A","B","C","1","2","3","|",
         "g","i","|","4","5","6","7","8","9">>,         \* 1  ids
       <<"9", "8">>,                                    \* 2
       <<"5">>,                                         \* 3  length
       <<"0">>,                                         \* 4  mismatch
       <<"1">>,                                         \* 5
       <<"1">>,                                         \* 6  query_start
       <<"5">>,                                         \* 7
       <<"7">>,                                         \* 8  subject_start
       <<"9">>,                                         \* 9
       <<"1", "e", "-", "5">>,                          \* 10 e_value
       <<"4", "2">>,                                    \* 11 (bit score, unused)
       <<"x">>,                                         \* 12
       <<"9">>,                                         \* 13 score
       <<"4">>,                                         \* 14 identities
       <<"4">>,                                         \* 15 positives
       <<"1">>,                                         \* 16 gaps
       <<"x">>,                                         \* 17
       <<"1">>,                                         \* 18 qframe
       <<"1">>,                                         \* 19 sframe
       <<"A", "C", "-", "G", "T">>,                     \* 20 query
       <<"A", "C", "-", "G", "T">> >>                   \* 21 subject

\* Other values a field can take (Python index -> set of texts).
AlignmentAlts == { <<"A", "C", "G", "-", "T">>,    \* same bases, gap moved
                   <<"A", "C", "-", "G", "A">> }   \* another base
Alts(i) ==
    CASE i = 0  -> { <<"q", "2">> }
      [] i = 1  -> { <<"g","b","|","A","B","C","1","2","3">> }
      [] i = 4  -> { <<"1">> }
      [] i = 6  -> { <<"2">> }
      [] i = 8  -> { <<"8">> }
      [] i = 10 -> { <<"2", "e", "-", "5">> }
      [] i = 11 -> { <<"4", "3">> }
      [] i = 13 -> { <<"8">> }
      [] i = 14 -> { <<"3">> }
      [] i = 15 -> { <<"3">> }
      [] i = 16 -> { <<"2">> }
      [] i = 18 -> { <<"2">> }
      [] i = 19 -> { <<"2">> }
      [] i = 20 -> AlignmentAlts
      [] i = 21 -> AlignmentAlts
      [] OTHER  -> {}

WithField(fields, i, text) == [fields EXCEPT ![i + 1] = text]

\* The field vectors that differ from BaseFields in at most k fields.
RECURSIVE Variants(_)
Variants(k) ==
    IF k = 0 THEN {BaseFields}
    ELSE LET prev == Variants(k - 1) IN
         prev \cup UNION { { WithField(v, i, t) : t \in Alts(i) } :
                           v \in prev, i \in 0..(NumFields - 1) }

\* The raw line of a field vector, with its line terminator (or none).
Line(fields, terminator) == Join(fields, TAB) \o terminator

Terminators == { <<NL>>, <<>> }

------------------------------------------------------------------------------
(* Identifier parsing on its own: arg is the raw id field, ret the GeneId list *)

MaxTokens == 4

IdTokens ==
    { <<>>,
      <<"g", "b">>,
      <<"g", "i">>,
      <<"p", "d", "b", "4">>,
      <<"N", "M", "_", "0", "1">>,
      <<"A", "B", "C", "1", "2", "3">>,
      <<"4", "5", "6", "7", "8", "9">> }

\* Every '|'-joined list of at most MaxTokens tokens; empty tokens give the
\* leading, trailing and doubled '|' of malformed fields.
IdFields ==
    { Join(toks, PIPE) : toks \in UNION { [1..k -> IdTokens] : k \in 0..MaxTokens } }

InitIds ==
    /\ arg \in IdFields
    /\ ret = <<>>
    /\ pc = "call"
    /\ hits = <<>>
    /\ blasts = <<>>

ParseIdentifiers ==
    /\ pc = "call"
    /\ ret' = ParseIds(arg)
    /\ pc' = "return"
    /\ UNCHANGED <<hits, blasts, arg>>

NextIds == ParseIdentifiers

SpecIds == InitIds /\ [][NextIds]_vars

------------------------------------------------------------------------------
(* compare_hit on its own: hits holds three records built from three lines *)

MaxDiff == 1

\* The lines the records are built from, and the record built from each.
CompareFields == Variants(MaxDiff)
Parsed == [ fields \in CompareFields |-> BlastHit(Line(fields, <<NL>>)) ]

\* hits[1..3] are built from three lines; hits[4] is a second record built from
\* the raw line of hits[1].
InitCompare ==
    /\ \E other \in CompareFields, third \in CompareFields, check_ids \in BOOLEAN :
          /\ arg = [ fields    |-> <<BaseFields, other, third, BaseFields>>,
                     check_ids |-> check_ids ]
          /\ hits = << Parsed[BaseFields], Parsed[other], Parsed[third],
                       Parsed[BaseFields] >>
    /\ ret = <<>>
    /\ pc = "call"
    /\ blasts = <<>>

\* ret[i][j] is hits[i].compare_hit(hits[j], check_ids).
CompareHits ==
    /\ pc = "call"
    /\ ret' = [ i \in 1..4 |->
                  [ j \in 1..4 |-> compare_hit(hits[i], hits[j], arg.check_ids) ] ]
    /\ pc' = "return"
    /\ UNCHANGED <<hits, blasts, arg>>

NextCompare == CompareHits

SpecCompare == InitCompare /\ [][NextCompare]_vars

------------------------------------------------------------------------------
(* __str__ on its own: hits holds one record, with any status the reconciler
   can have left on it *)

MaxDiffStr == 1

Statuses == {"", "equal", "similar"}

InitStr ==
    /\ \E fields \in Variants(MaxDiffStr), terminator \in Terminators,
          status \in Statuses :
          /\ arg = [fields |-> fields, terminator |-> terminator]
          /\ hits = << [BlastHit(Line(fields, terminator)) EXCEPT !.status = status] >>
    /\ ret = <<>>
    /\ pc = "call"
    /\ blasts = <<>>

Str ==
    /\ pc = "call"
    /\ ret' = ToStr(hits[1])
    /\ pc' = "return"
    /\ UNCHANGED <<hits, blasts, arg>>

NextStr == Str

SpecStr == InitStr /\ [][NextStr]_vars

------------------------------------------------------------------------------
(* compare_blasts *)

EmptyResult(all) == [same |-> <<>>, similar |-> <<>>, unknown |-> <<>>, all |-> all]

\* A scan that keeps the last matching index instead of stopping at the first.
RECURSIVE ScanLast(_, _, _, _)
ScanLast(hs, hitA, blastB, num) ==
    IF num > Len(blastB) THEN 0
    ELSE LET later == ScanLast(hs, hitA, blastB, num + 1) IN
         IF later # 0 THEN later
         ELSE IF compare_hit(hs[hitA], hs[blastB[num]], TRUE)[1] THEN num ELSE 0

\* The inner for loop up to its break: the first position of blastB (1-based,
\* from num on) whose hit matches hitA, or 0 when the loop runs to its end.
RECURSIVE Scan(_, _, _, _)
Scan(hs, hitA, blastB, num) ==
    IF num > Len(blastB) THEN 0
    ELSE IF compare_hit(hs[hitA], hs[blastB[num]], TRUE)[1] THEN num
    ELSE Scan(hs, hitA, blastB, num + 1)

\* A pop that removes nothing.
PopKeeps(list, num) == list

\* list.pop(num), num 1-based here.
Pop(list, num) == SubSeq(list, 1, num - 1) \o SubSeq(list, num + 1, Len(list))

\* The body of the outer loop for one hitA.  st holds the heap of hits, the
\* list object blastB and the two dictionaries under construction.
ProcessHit(st, hitA) ==
    LET num == Scan(st.hits, hitA, st.blastB, 1) IN
    IF num = 0
    THEN [st EXCEPT !.hitsA.unknown = Append(@, hitA)]
    ELSE LET hitB == st.blastB[num]
             differences == compare_hit(st.hits[hitA], st.hits[hitB], TRUE)[2]
             status == IF Len(differences) > 0 THEN "similar" ELSE "equal"
             bucket == IF Len(differences) > 0 THEN "similar" ELSE "same"
         IN [st EXCEPT !.hits[hitA].status = status,
                       !.hits[hitB].status = status,
                       !.hitsA[bucket] = Append(@, hitA),
                       !.hitsB[bucket] = Append(@, hitB),
                       !.blastB = Pop(@, num)]

\* An outer loop that walks blastA from its end.
RECURSIVE ForEachReversed(_, _, _)
ForEachReversed(st, blastA, i) ==
    IF i > Len(blastA) THEN st
    ELSE ForEachReversed(ProcessHit(st, blastA[Len(blastA) + 1 - i]), blastA, i + 1)

\* for hitA in blastA, from position i on.
RECURSIVE ForEach(_, _, _)
ForEach(st, blastA, i) ==
    IF i > Len(blastA) THEN st
    ELSE ForEach(ProcessHit(st, blastA[i]), blastA, i + 1)

\* A return that forgets what is left of blastB.
FinishForgets(st) == st

\* hitsB['unknown'].extend(blastB)
Finish(st) == [st EXCEPT !.hitsB.unknown = @ \o st.blastB]

\* compare_blasts(blastA, blastB) on two list objects: the final heap of hits,
\* the final list object blastB and the two dictionaries returned.
compare_blasts(hs, blastA, blastB) ==
    Finish(ForEach([ hits   |-> hs,
                     blastB |-> blastB,
                     hitsA  |-> EmptyResult(blastA),
                     hitsB  |-> EmptyResult(blastB) ],
                   blastA, 1))

------------------------------------------------------------------------------
(* The caller: two parsed result sets A and B and an empty one E (a search
   that found nothing), compared pairwise in any direction, again and again.
   arg names the list objects passed as (blastA, blastB). *)

MaxLen == 2

ListNames == {"A", "B", "E"}

\* The lines the hits are built from: a line, the same hit with another
\* e-value, and a hit at another query position.
BlastLines ==
    { BaseFields,
      WithField(BaseFields, 10, <<"2", "e", "-", "5">>),
      WithField(BaseFields, 6, <<"2">>) }

BlastHits == { BlastHit(Line(fields, <<NL>>)) : fields \in BlastLines }

HitIds == DOMAIN hits

\* Every list holds its own freshly built hits, in the order they were read.
Init ==
    /\ \E nA \in 0..MaxLen, nB \in 0..MaxLen :
          /\ hits \in [1..(nA + nB) -> BlastHits]
          /\ blasts = [ l \in ListNames |->
                          CASE l = "A" -> [k \in 1..nA |-> k]
                            [] l = "B" -> [k \in 1..nB |-> nA + k]
                            [] OTHER   -> <<>> ]
    /\ arg = <<>>
    /\ ret = <<>>
    /\ pc = "call"

CompareBlasts(x, y) ==
    /\ x # y
    /\ LET st == compare_blasts(hits, blasts[x], blasts[y]) IN
          /\ hits' = st.hits
          /\ blasts' = [blasts EXCEPT ![y] = st.blastB]
          /\ ret' = <<st.hitsA, st.hitsB>>
    /\ arg' = <<x, y>>
    /\ pc' = "return"

Next == \E x \in ListNames, y \in ListNames : CompareBlasts(x, y)

Spec == Init /\ [][Next]_vars

------------------------------------------------------------------------------
(* Properties of identifier parsing (SpecIds) *)

\* One left-to-right pass with a current tag: a short token becomes the tag, a
\* long token is paired with the tag if there is one.
RECURSIVE ScanIds(_, _, _, _)
ScanIds(tokens, i, tag, acc) ==
    IF i > Len(tokens) THEN acc
    ELSE IF Len(tokens[i]) < 5 THEN ScanIds(tokens, i + 1, <<tokens[i]>>, acc)
    ELSE IF tag = <<>> THEN ScanIds(tokens, i + 1, tag, acc)
    ELSE ScanIds(tokens, i + 1, tag, Append(acc, [db |-> tag[1], num |-> tokens[i]]))

ExampleIdField ==
    <<"g","b","|","A","B","C","1","2","3","|","g","i","|","4","5","6","7","8","9">>

ExampleIds ==
    << [db |-> <<"g", "b">>, num |-> <<"A", "B", "C", "1", "2", "3">>],
       [db |-> <<"g", "i">>, num |-> <<"4", "5", "6", "7", "8", "9">>] >>

\* C7: for every id field, parsing yields exactly the identifiers of the
\* left-to-right scan (short token = current tag, each long token after a tag
\* = one identifier, long tokens before any tag = nothing), in token order with
\* duplicates kept; every identifier has a tag shorter than 5 and an accession
\* of at least 5 characters; 'gb|ABC123|gi|456789' yields [(gb,ABC123),
\* (gi,456789)] and the empty field yields [].
C7_IdentifierScan ==
    pc = "return" =>
        /\ ret = ScanIds(Split(Strip(arg, PIPE), PIPE), 1, <<>>, <<>>)
        /\ \A k \in 1..Len(ret) : Len(ret[k].db) < 5 /\ Len(ret[k].num) >= 5
        /\ arg = ExampleIdField => ret = ExampleIds
        /\ arg = <<>> => ret = <<>>

\* The example field has been parsed into its two identifiers.
C7_Witness ==
    /\ pc = "return"
    /\ arg = ExampleIdField
    /\ ret = ExampleIds

------------------------------------------------------------------------------
(* Properties of compare_hit (SpecCompare) *)

RECURSIVE OnlyACGT(_)
OnlyACGT(s) ==
    IF s = <<>> THEN <<>>
    ELSE IF Head(s) \in {"A", "C", "G", "T"} THEN <<Head(s)>> \o OnlyACGT(Tail(s))
    ELSE OnlyACGT(Tail(s))

HardFieldDiffers(a, b, check_ids) ==
    \/ check_ids /\ a.ids # b.ids
    \/ a.query_start # b.query_start
    \/ a.subject_start # b.subject_start
    \/ a.qframe # b.qframe
    \/ a.sframe # b.sframe
    \/ OnlyACGT(a.query) # OnlyACGT(b.query)
    \/ OnlyACGT(a.subject) # OnlyACGT(b.subject)

AlignmentFieldDiffers(a, b) ==
    \E f \in {"identities", "query", "subject", "score", "positives", "gaps",
              "mismatch"} : a[f] # b[f]

Count(seq, x) == Cardinality({k \in 1..Len(seq) : seq[k] = x})

\* The lines of i and j differ in the field of Python index f and in no other.
DifferOnlyIn(i, j, f) ==
    \A m \in 0..(NumFields - 1) :
        (Field(arg.fields[i], m) # Field(arg.fields[j], m)) <=> (m = f)

TagSet(differences) == {differences[k] : k \in 1..Len(differences)}

\* C5: the match verdict is an equivalence relation: a record matches itself
\* and a record built from the same line with no differences; the verdict and
\* the set of difference tags are the same in both directions; and if a matches
\* b and b matches c then a matches c.
C5_CompareHitEquivalence ==
    pc = "return" =>
        /\ \A i \in 1..4 : ret[i][i][1] = TRUE /\ ret[i][i][2] = <<>>
        /\ ret[1][4][1] = TRUE /\ ret[1][4][2] = <<>>
        /\ \A i, j \in 1..4 :
              /\ ret[i][j][1] = ret[j][i][1]
              /\ TagSet(ret[i][j][2]) = TagSet(ret[j][i][2])
        /\ \A i, j, k \in 1..4 :
              (ret[i][j][1] /\ ret[j][k][1]) => ret[i][k][1]

\* Three records with pairwise different lines that all match each other.
C5_Witness ==
    /\ pc = "return"
    /\ ret[1][2][1] = TRUE /\ ret[1][2][2] = <<"eValue">>
    /\ ret[2][3][1] = TRUE /\ ret[2][3][2] = <<"eValue", "alignment">>
    /\ ret[1][3][1] = TRUE /\ ret[1][3][2] = <<"alignment">>

------------------------------------------------------------------------------
(* Properties of __str__ (SpecStr) *)

\* C6: the text of a record is its raw line when the status is unset, and
\* otherwise the raw line without its line terminator, a tab and the status:
\* every character of the line other than the terminator is kept, for a line
\* with or without a trailing newline.
C6_StrKeepsLine ==
    pc = "return" =>
        IF hits[1].status = ""
        THEN ret = Line(arg.fields, arg.terminator)
        ELSE ret = Join(arg.fields, TAB) \o <<TAB>> \o StatusChars(hits[1].status)

------------------------------------------------------------------------------
(* Properties of compare_blasts (Spec).  In a step, blasts[arg'[1]] and
   blasts[arg'[2]] are the lists as the caller passed them and ret' is what
   the call returned. *)

Buckets(res) == res.same \o res.similar \o res.unknown

Pos(list, h) == CHOOSE k \in 1..Len(list) : list[k] = h

\* The hits of bucket stand in the relative order they have in list.
InOrderOf(bucket, list) ==
    /\ \A k \in 1..Len(bucket) : Count(list, bucket[k]) = 1
    /\ \A i, j \in 1..Len(bucket) :
          i < j => Pos(list, bucket[i]) < Pos(list, bucket[j])

Matches(a, b) == compare_hit(hits[a], hits[b], TRUE)[1]

\* C1: every hit of listA is in exactly one of resultA's same/similar/unknown
\* buckets, every hit of listB in exactly one of resultB's, nothing else is in
\* them, and each 'all' bucket is the corresponding input in its order.
C1_Conserving ==
    [][ LET inA == blasts[arg'[1]]
            inB == blasts[arg'[2]]
        IN /\ \A h \in HitIds :
                 /\ Count(Buckets(ret'[1]), h) = Count(inA, h)
                 /\ Count(Buckets(ret'[2]), h) = Count(inB, h)
           /\ ret'[1].all = inA
           /\ ret'[2].all = inB ]_vars

\* A call returned with a matched pair and an unmatched hit on both sides.
C1_Witness ==
    /\ pc = "return"
    /\ Len(ret[1].similar) = 1 /\ Len(ret[1].unknown) = 1
    /\ Len(ret[2].similar) = 1 /\ Len(ret[2].unknown) = 1

\* C2: matching is one-to-one: no hit is matched twice, the same buckets have
\* equal length and so have the similar buckets, and the hits at one position
\* of corresponding buckets are a matched pair (without differences in same,
\* with differences in similar).
C2_OneToOne ==
    pc = "return" =>
        LET a == ret[1]
            b == ret[2]
        IN /\ Len(a.same) = Len(b.same)
           /\ Len(a.similar) = Len(b.similar)
           /\ \A h \in HitIds :
                 /\ Count(a.same \o a.similar, h) <= 1
                 /\ Count(b.same \o b.similar, h) <= 1
           /\ \A k \in 1..Len(a.same) :
                 LET r == compare_hit(hits[a.same[k]], hits[b.same[k]], TRUE)
                 IN r[1] = TRUE /\ r[2] = <<>>
           /\ \A k \in 1..Len(a.similar) :
                 LET r == compare_hit(hits[a.similar[k]], hits[b.similar[k]], TRUE)
                 IN r[1] = TRUE /\ r[2] # <<>>

\* A call returned with one exact pair and one near pair.
C2_Witness ==
    /\ pc = "return"
    /\ Len(ret[1].same) = 1 /\ Len(ret[2].same) = 1
    /\ Len(ret[1].similar) = 1 /\ Len(ret[2].similar) = 1

\* C3: listA is processed in order; each hitA is paired with the first hit, in
\* list order, of the hits of listB not consumed by an earlier hitA that it
\* matches, and is in resultA.unknown exactly when there is none.  For
\* listA = [h1], listB = [h2, h3] with both matching h1, h1 pairs with h2 and h3
\* ends in resultB.unknown.
C3_FirstMatchWins ==
    [][ LET inA == blasts[arg'[1]]
            inB == blasts[arg'[2]]
            rA == ret'[1]
            rB == ret'[2]
            Partner(h) ==
                IF Count(rA.same, h) > 0 THEN rB.same[Pos(rA.same, h)]
                ELSE IF Count(rA.similar, h) > 0 THEN rB.similar[Pos(rA.similar, h)]
                ELSE 0
            ConsumedBefore(p) == { Partner(inA[q]) : q \in 1..(p - 1) }
            Matching(p) == { n \in 1..Len(inB) :
                               /\ inB[n] \notin ConsumedBefore(p)
                               /\ Matches(inA[p], inB[n]) }
            First(p) == CHOOSE n \in Matching(p) : \A m \in Matching(p) : n <= m
        IN /\ \A p \in 1..Len(inA) :
                 IF Matching(p) = {}
                 THEN Partner(inA[p]) = 0 /\ Count(rA.unknown, inA[p]) = 1
                 ELSE Partner(inA[p]) = inB[First(p)] /\ Count(rA.unknown, inA[p]) = 0
           /\ ( /\ Len(inA) = 1 /\ Len(inB) = 2
                /\ Matches(inA[1], inB[1]) /\ Matches(inA[1], inB[2]) )
              => /\ Partner(inA[1]) = inB[1]
                 /\ rB.unknown = <<inB[2]>> ]_vars

\* compare_blasts([h1], [h2, h3]) returned, h2 and h3 both matching h1.
C3_Witness ==
    /\ pc = "return"
    /\ Len(ret[1].all) = 1 /\ Len(ret[2].all) = 2
    /\ Matches(ret[1].all[1], ret[2].all[1])
    /\ Matches(ret[1].all[1], ret[2].all[2])
    /\ ret[2].unknown = <<ret[2].all[2]>>

\* C8: a call leaves both of the caller's list objects as they were.
C8_InputsUntouched ==
    [][ /\ blasts'[arg'[1]] = blasts[arg'[1]]
        /\ blasts'[arg'[2]] = blasts[arg'[2]] ]_vars

\* C9: after every call, each hit's status agrees with the bucket the call put
\* it in ('equal' in same, 'similar' in similar, unset in unknown), and both
\* hits of a matched pair carry the same status.
C9_StatusAgreesWithBucket ==
    pc = "return" =>
        \A r \in 1..2 :
            /\ \A k \in 1..Len(ret[r].same) : hits[ret[r].same[k]].status = "equal"
            /\ \A k \in 1..Len(ret[r].similar) :
                  hits[ret[r].similar[k]].status = "similar"
            /\ \A k \in 1..Len(ret[r].unknown) : hits[ret[r].unknown[k]].status = ""

\* C10 as stated: every bucket of both results lists its hits in the relative
\* order of the corresponding input list.
C10_EveryBucketInInputOrder ==
    [][ \A r \in 1..2 :
          \A bucket \in {"same", "similar", "unknown"} :
              InOrderOf(ret'[r][bucket], blasts[arg'[r]]) ]_vars

\* C10 amended: the buckets of resultA and resultB.unknown list their hits in
\* the relative order of their input list; resultB.same and resultB.similar
\* list theirs in the order of the partners in listA, position by position.
C10_OrderOfBuckets ==
    [][ /\ \A bucket \in {"same", "similar", "unknown"} :
              InOrderOf(ret'[1][bucket], blasts[arg'[1]])
        /\ InOrderOf(ret'[2].unknown, blasts[arg'[2]])
        /\ \A bucket \in {"same", "similar"} :
              /\ Len(ret'[2][bucket]) = Len(ret'[1][bucket])
              /\ \A k \in 1..Len(ret'[2][bucket]) :
                    Matches(ret'[1][bucket][k], ret'[2][bucket][k]) ]_vars

\* A call returned two exact pairs whose listB hits stand in the other order
\* in listB.
C10_Witness ==
    /\ pc = "return"
    /\ Len(ret[2].same) = 2
    /\ Pos(ret[2].all, ret[2].same[1]) > Pos(ret[2].all, ret[2].same[2])
    /\ Pos(ret[1].all, ret[1].same[1]) < Pos(ret[1].all, ret[1].same[2])

====
